---- MODULE Spec2Model ----
(***************************************************************************)
(* The state-transition engine and frame driver of ld-game-engine          *)
(* (src/src/lib.rs: handle_transition, run) together with the event queue  *)
(* filled by the input callbacks of src/src/event.rs.                      *)
(*                                                                         *)
(* State objects are identified by the order of their creation (1 is the   *)
(* state returned by Game::load); a Set or Push payload is always a newly  *)
(* boxed object (StateTransition::set / push).  The hooks are user code:   *)
(* every invocation returns any of the four outcomes.                      *)
(***************************************************************************)
EXTENDS Integers, Sequences, FiniteSets, TLC

\* Number of state objects that are created in one run (1 is the initial one).
MaxObjs == 4
\* Number of input events captured in one run.
MaxEvents == 3
\* Number of touch points in one touch event.
MaxTouches == 2

VARIABLES
    stack,      \* run: `states`, bottom first, the last element is the active state
    queue,      \* run: `event_queue`, oldest first
    pc,         \* position of the single thread: start, resolve, returned, idle,
                \* dispatch, fatal
    phase,      \* "startup" or "tick": which call of handle_transition is running
    pending,    \* handle_transition: `next_transition`
    fatal,      \* the panic message, "" while running
    nextId,     \* identity of the next state object to be created
    nextEv,     \* sequence number of the next captured event
    released,   \* the state objects that have been dropped
    enteredCnt, \* per object: invocations of on_pushed
    exitedCnt,  \* per object: invocations of on_popped
    popped,     \* the objects taken off the stack by Pop
    replaced,   \* the objects overwritten by Set
    trace,      \* what the last step did, in program order: hook calls and drops
    chain,      \* the outcomes applied so far by the running handle_transition
    tickStart,  \* the queue as it was when the running tick began
    delivered,  \* the events handed to on_event in the running tick, with results
    updates,    \* invocations of on_update in the running tick
    rhooks,     \* hook invocations made by the arms of the running handle_transition
    nOut,       \* results other than None handed to the running handle_transition
    deliveredCnt, \* per event: how many times it was handed to on_event
    storage,    \* run: `storage`, what Context::storage() returns
    blob,       \* localStorage: what is kept under the key "data"
    lastSet,    \* the argument of the last set_storage call ever made, or Never
    wrote,      \* the argument of set_storage in the last step's hook, or NoWrite
    loaded,     \* what get_data returned when this session started
    hookWrites, \* the values the game's hooks pass to set_storage
    requests,   \* frame callbacks requested from the host and not yet invoked
    timed,      \* whether `last_time` holds the time of the last frame begun
    input,      \* the button event handed to the last pointer callback
    button,     \* ui.rs: a Button, its fields enabled, hovered, last_touch
    call        \* the last call of Button::on_event: its event and what it did

vars == <<stack, queue, pc, phase, pending, fatal, nextId, nextEv, released,
          enteredCnt, exitedCnt, popped, replaced, trace, chain, tickStart,
          delivered, updates, rhooks, nOut, deliveredCnt, storage, blob,
          lastSet, wrote, loaded, hookWrites, requests, timed, input, button,
          call>>

Objs == 1..MaxObjs
Evs == 1..MaxEvents

PanicPopped == "Popped the last state!"
\* the message of a failed Option::unwrap
PanicUnwrap == "called Option::unwrap() on a None value"

----------------------------------------------------------------------------
(* StateTransition and the values a hook may return.                       *)

NoneT == [kind |-> "None", state |-> 0]
PopT == [kind |-> "Pop", state |-> 0]
SetT(s) == [kind |-> "Set", state |-> s]
PushT(s) == [kind |-> "Push", state |-> s]

is_none(t) == t.kind = "None"

\* The outcomes a hook can return when the next object to be boxed is nid.
Outcomes(nid) ==
    {NoneT, PopT} \cup (IF nid <= MaxObjs THEN {SetT(nid), PushT(nid)} ELSE {})

\* 1 for an outcome the resolver has to apply, 0 for None.
NonNone(t) == IF is_none(t) THEN 0 ELSE 1

\* How many objects returning t has created.
Created(t) == IF t.kind \in {"Set", "Push"} THEN 1 ELSE 0

----------------------------------------------------------------------------
(* Vec operations.                                                         *)

Last(s) == s[Len(s)]
Front(s) == SubSeq(s, 1, Len(s) - 1)

\* Faulty variant: taking the newest event empties the queue (Vec::drain).
PopAndClear(q) == [ev |-> Last(q), rest |-> <<>>]

\* Faulty variant: the queue drained from its oldest end (Vec::remove(0)).
PopOldest(q) == [ev |-> q[1], rest |-> Tail(q)]

\* Faulty variant: the newest event is read but left in the queue (Vec::last).
PeekNewest(q) == [ev |-> Last(q), rest |-> q]

\* Vec::pop on the event queue: the element removed and what is left.
PopNewest(q) == [ev |-> Last(q), rest |-> Front(q)]

\* Faulty variant: the event is put before the ones already queued.
VecInsertFirst(q, e) == <<e>> \o q

\* Vec::push on the event queue
VecPush(q, e) == Append(q, e)

\* Faulty variant: the hooks invoked on the bottom of the stack (first_mut).
Bottom(stk) == stk[1]

\* stack.last_mut().unwrap(): the object a hook is invoked on.
Active(stk) == Last(stk)

\* Faulty variant: only a Pop result ends the draining loop; a Set or Push
\* result is discarded like None.
ShortCircuitsOnPop(t) == t.kind = "Pop"

\* closure of run: a result of on_event that ends the draining loop
ShortCircuits(t) == ~is_none(t)

----------------------------------------------------------------------------
(* Entries of `trace`.                                                     *)

\* The four hooks of GameState, by the names the specification gives them.
HookNames == {"entered", "handles_event", "updates", "exited"}

\* Hook h invoked on object o; it returned t.
Call(h, o, t) == [op |-> h, obj |-> o, ret |-> t.kind]
\* Object o is dropped.
Drop(o) == [op |-> "release", obj |-> o, ret |-> "-"]

Count(tr, h, o) == Cardinality({i \in 1..Len(tr) : tr[i].op = h /\ tr[i].obj = o})

----------------------------------------------------------------------------
(* The persisted storage.  G::Storage is any type with a default value and *)
(* a serde representation that reads back what it wrote; Vals are two of   *)
(* its values.  The entry of localStorage is absent, or holds a text.       *)

Default == "default"
Vals == {Default, "a"}

Unloaded == "unloaded"
NoInput == [kind |-> "-", code |-> 0]
Never == "never"
NoWrite == "-"

\* localStorage.get("data") returned None
Absent == <<>>
\* a text that serde_json::from_str rejects for G::Storage
Garbage == <<"junk">>

\* serde_json::to_string
to_string(v) == <<"json", v>>

\* serde_json::from_str(..).ok(): the value, or Absent where parsing fails
from_str(b) == IF Len(b) = 2 /\ b[1] = "json" /\ b[2] \in Vals THEN <<b[2]>> ELSE Absent

\* Faulty variant: a text that does not parse is handed on as the value.
get_dataRaw(b) == IF b = Absent THEN Default ELSE b[Len(b)]

\* get_data: .get("data").unwrap().and_then(from_str).unwrap_or_default()
get_data(b) ==
    IF b = Absent THEN Default
    ELSE IF from_str(b) = Absent THEN Default ELSE from_str(b)[1]

\* Faulty variant: the entry is written only while there is none.
set_dataOnce(b, v) == IF b = Absent THEN to_string(v) ELSE b

\* set_data: .set("data", to_string(data)), the new entry
set_data(b, v) == to_string(v)

\* Faulty variant: the value in memory is replaced, nothing is persisted.
set_storageMemoryOnly(st, b, v) == [storage |-> v, blob |-> b]

\* Faulty variant: the value is persisted, the one in memory is kept.
set_storagePersistOnly(st, b, v) == [storage |-> st, blob |-> set_data(b, v)]

\* Context::set_storage: set_data(&new_storage); *self.storage = new_storage
set_storage(st, b, v) == [storage |-> v, blob |-> set_data(b, v)]

\* What a hook may do to the storage: nothing, or set_storage of a value.
Writes == {NoWrite} \cup hookWrites

\* The hook of this step, invoked with st in memory, does w.
Stores(st, w) ==
    /\ wrote' = w
    /\ IF w = NoWrite
       THEN /\ storage' = st
            /\ UNCHANGED <<blob, lastSet>>
       ELSE LET r == set_storage(st, blob, w) IN
            /\ storage' = r.storage
            /\ blob' = r.blob
            /\ lastSet' = w

\* A step that invokes no hook.
NoHook ==
    /\ wrote' = NoWrite
    /\ UNCHANGED <<storage, blob, lastSet>>

\* Faulty variant: the frame does not ask for the next one.
RequestNone(n) == n

\* Faulty variant: every frame requests two.
RequestTwice(n) == n + 2

\* window().request_animation_frame(..): one more callback is outstanding
request_animation_frame(n) == n + 1

----------------------------------------------------------------------------
(* ui.rs: Button.  A position is a point of the surface; Inside are the    *)
(* points for which Text::is_over holds.  Option values are <<>> for None  *)
(* and <<x>> for Some(x).                                                  *)

Points == {"p", "q", "r"}
Inside == {"p", "q"}

\* Box<[V2]>: the touch points of a touch event
TouchLists == UNION {[1..n -> Points] : n \in 0..MaxTouches}

MouseMoveE(p) == [kind |-> "MouseMove", pos |-> p, button |-> "-", touches |-> <<>>]
MouseUpE(p, b) == [kind |-> "MouseUp", pos |-> p, button |-> b, touches |-> <<>>]
MouseDownE(p, b) == [kind |-> "MouseDown", pos |-> p, button |-> b, touches |-> <<>>]
TouchE(k, l) == [kind |-> k, pos |-> "-", button |-> "-", touches |-> l]
KeyDownE == [kind |-> "KeyDown", pos |-> "-", button |-> "-", touches |-> <<>>]

\* The events a Button is handed.
ButtonEvents ==
    {MouseMoveE(p) : p \in Points}
    \cup {MouseUpE(p, b) : p \in Points, b \in {"Left", "Right"}}
    \cup {MouseDownE(p, "Left") : p \in Points}
    \cup {TouchE(k, l) : k \in {"TouchStart", "TouchMove", "TouchEnd"}, l \in TouchLists}
    \cup {KeyDownE}

\* Text::is_over
is_over(pos) == pos \in Inside

\* touches.get(0).copied()
get0(l) == IF l = <<>> THEN <<>> ELSE <<l[1]>>

\* Option::or
or(a, b) == IF a # <<>> THEN a ELSE b

\* Button::new
NewButton == [enabled |-> TRUE, hovered |-> FALSE, last_touch |-> <<>>]

\* What a call leaves: the button, the value returned, the position handed to
\* handle_press if it was called, the sound whose play() was reached.
Done(b, r, at, snd) == [button |-> b, ret |-> r, press |-> at, played |-> snd]

\* Button::handle_press
handle_press(b, pos) ==
    IF is_over(pos)
    THEN Done(b, TRUE, <<pos>>, "click")
    ELSE Done(b, FALSE, <<pos>>, "-")

\* Faulty variant: a touch that ends uses up the remembered position.
TouchEndArmClears(b, touches) ==
    LET b2 == [b EXCEPT !.hovered = FALSE, !.last_touch = <<>>]
        at == or(get0(touches), b.last_touch)
    IN IF at # <<>> THEN handle_press(b2, at[1]) ELSE Done(b2, FALSE, <<>>, "-")

\* on_event: the arm `Event::TouchEnd { touches } if touches.len() <= 1`
TouchEndArm(b, touches) ==
    LET b2 == [b EXCEPT !.hovered = FALSE]
        at == or(get0(touches), b2.last_touch)
    IN IF at # <<>> THEN handle_press(b2, at[1]) ELSE Done(b2, FALSE, <<>>, "-")

\* Button::on_event
on_event(b, ev) ==
    IF ~b.enabled THEN Done(b, FALSE, <<>>, "-")
    ELSE CASE ev.kind = "MouseMove" ->
                LET over == is_over(ev.pos) IN
                Done([b EXCEPT !.hovered = over], FALSE, <<>>,
                     IF ~b.hovered /\ over THEN "hover" ELSE "-")
           [] ev.kind = "MouseUp" /\ ev.button = "Left" -> handle_press(b, ev.pos)
           [] ev.kind = "TouchStart" ->
                Done([b EXCEPT !.last_touch = get0(ev.touches)], FALSE, <<>>, "-")
           [] ev.kind = "TouchMove" ->
                Done([b EXCEPT !.last_touch = get0(ev.touches)], FALSE, <<>>, "-")
           [] ev.kind = "TouchEnd" /\ Len(ev.touches) <= 1 -> TouchEndArm(b, ev.touches)
           [] OTHER -> Done(b, FALSE, <<>>, "-")

\* No call of on_event yet.
NoCall == [ev |-> KeyDownE, ret |-> FALSE, press |-> <<>>, played |-> "-",
           recent |-> <<>>]

----------------------------------------------------------------------------
(* The arms of handle_transition's match, each given the result t of the   *)
(* hook the arm invokes.                                                   *)

\* Faulty variant: Set pushes the new state instead of overwriting the top.
SetArmAsPush(stk, new, t) ==
    LET stk2 == Append(stk, new)
    IN [stack |-> stk2,
        trace |-> <<Call("entered", Last(stk2), t)>>]

\* Faulty variant: Set notifies the state it replaces (on_popped) first.
SetArmExits(stk, new, t) ==
    LET old == Last(stk)
        stk2 == [stk EXCEPT ![Len(stk)] = new]
    IN [stack |-> stk2,
        trace |-> <<Call("exited", old, NoneT), Drop(old),
                    Call("entered", Last(stk2), t)>>]

\* Variant: the old state is moved out (mem::replace) and dropped only after
\* on_pushed of the new one has returned.
SetArmLateDrop(stk, new, t) ==
    LET old == Last(stk)
        stk2 == [stk EXCEPT ![Len(stk)] = new]
    IN [stack |-> stk2,
        trace |-> <<Call("entered", Last(stk2), t), Drop(old)>>]

\* Set: `*last = state` drops the old top and stores the new one, then
\* on_pushed is invoked on it.
SetArm(stk, new, t) ==
    LET old == Last(stk)
        stk2 == [stk EXCEPT ![Len(stk)] = new]
    IN [stack |-> stk2,
        trace |-> <<Drop(old), Call("entered", Active(stk2), t)>>]

\* Faulty variant: Push invokes on_pushed twice on the new top.
PushArmTwice(stk, new, t) ==
    LET stk2 == Append(stk, new)
    IN [stack |-> stk2,
        trace |-> <<Call("entered", Last(stk2), t), Call("entered", Last(stk2), t)>>]

\* Push: stack.push(state), then on_pushed on the new top.
PushArm(stk, new, t) ==
    LET stk2 == Append(stk, new)
    IN [stack |-> stk2,
        trace |-> <<Call("entered", Active(stk2), t)>>]

\* Faulty variant: the emptiness check is missing.
PopFatalMissing(next, stk) == FALSE

\* Faulty variant: an empty stack is fatal whatever on_popped returned.
PopFatalAnyEmpty(next, stk) == stk = <<>>

\* Pop: the condition of panic!("Popped the last state!"), on the result of
\* on_popped and the stack after the removal.
PopFatal(next, stk) == next.kind # "Push" /\ stk = <<>>

\* Faulty variant: on_popped invoked on the top without removing it.
PopArmPeek(stk, t) ==
    LET o == Last(stk)
    IN [stack |-> stk,
        trace |-> <<Call("exited", o, t), Drop(o)>>]

\* Faulty variant: after a Pop the uncovered state is entered again.
PopArmReenter(stk, t) ==
    LET o == Last(stk)
        stk2 == Front(stk)
    IN [stack |-> stk2,
        trace |-> <<Call("exited", o, t), Drop(o)>> \o
                  (IF stk2 = <<>> THEN <<>> ELSE <<Call("entered", Last(stk2), NoneT)>>)]

\* Pop: stack.pop().unwrap().on_popped(..); the object is consumed by the call.
PopArm(stk, t) ==
    LET o == Last(stk)
        stk2 == Front(stk)
    IN [stack |-> stk2,
        trace |-> <<Call("exited", o, t), Drop(o)>>]

----------------------------------------------------------------------------

\* The session before run has executed.
Boot ==
    /\ stack = <<1>>
    /\ queue = <<>>
    /\ pc = "start"
    /\ phase = "startup"
    /\ pending = NoneT
    /\ fatal = ""
    /\ nextId = 2
    /\ nextEv = 1
    /\ released = {}
    /\ enteredCnt = [o \in Objs |-> 0]
    /\ exitedCnt = [o \in Objs |-> 0]
    /\ popped = {}
    /\ replaced = {}
    /\ trace = <<>>
    /\ chain = <<>>
    /\ tickStart = <<>>
    /\ delivered = <<>>
    /\ updates = 0
    /\ rhooks = 0
    /\ nOut = 0
    /\ deliveredCnt = [e \in Evs |-> 0]
    /\ storage = Unloaded
    /\ wrote = NoWrite
    /\ loaded = Unloaded
    /\ requests = 0
    /\ timed = FALSE
    /\ input = NoInput
    /\ button = NewButton
    /\ call = NoCall

\* A first session of a game whose hooks leave the storage alone.
Init ==
    /\ Boot
    /\ blob = Absent
    /\ lastSet = Never
    /\ hookWrites = {}

\* The bookkeeping of one step whose hook calls and drops are tr.
Log(tr) ==
    /\ trace' = tr
    /\ enteredCnt' = [o \in Objs |-> enteredCnt[o] + Count(tr, "entered", o)]
    /\ exitedCnt' = [o \in Objs |-> exitedCnt[o] + Count(tr, "exited", o)]
    /\ released' = released \cup {tr[i].obj : i \in {j \in 1..Len(tr) : tr[j].op = "release"}}

\* Faulty variant: the panic is caught and handle_transition returns.
PanicCaught(msg) ==
    /\ pc' = "returned"
    /\ fatal' = msg
    /\ pending' = NoneT

\* A failed unwrap() of stack.last_mut() or stack.pop().
Panic(msg) ==
    /\ pc' = "fatal"
    /\ fatal' = msg
    /\ pending' = NoneT

----------------------------------------------------------------------------
(* run, up to the first hook call of the startup handle_transition.        *)

RunStartup ==
    /\ UNCHANGED <<button, call>>
    /\ pc = "start"
    /\ loaded' = get_data(blob)
    /\ \E t \in Outcomes(nextId), w \in Writes :
         /\ Log(<<Call("entered", Active(stack), t)>>)
         /\ Stores(get_data(blob), w)
         /\ pending' = t
         /\ nextId' = nextId + Created(t)
         /\ nOut' = NonNone(t)
    /\ pc' = "resolve"
    /\ phase' = "startup"
    /\ chain' = <<>>
    /\ rhooks' = 0
    /\ UNCHANGED <<stack, queue, fatal, nextEv, popped, replaced, tickStart,
                   delivered, updates, deliveredCnt, hookWrites, requests, timed,
                   input>>

(* handle_transition: one iteration of the while-let loop per step.        *)

ResolveSet ==
    /\ UNCHANGED <<button, call>>
    /\ pc = "resolve"
    /\ pending.kind = "Set"
    /\ IF stack = <<>>
       THEN /\ Panic(PanicUnwrap)
            /\ NoHook
            /\ UNCHANGED <<stack, nextId, released, enteredCnt, exitedCnt,
                           replaced, trace, chain, rhooks, nOut>>
       ELSE \E t \in Outcomes(nextId), w \in Writes :
              LET r == SetArm(stack, pending.state, t) IN
              /\ stack' = r.stack
              /\ Log(r.trace)
              /\ Stores(storage, w)
              /\ replaced' = replaced \cup {Last(stack)}
              /\ chain' = Append(chain, "Set")
              /\ pending' = t
              /\ nextId' = nextId + Created(t)
              /\ rhooks' = rhooks + Cardinality({i \in 1..Len(r.trace) : r.trace[i].op \in HookNames})
              /\ nOut' = nOut + NonNone(t)
              /\ UNCHANGED <<pc, fatal>>
    /\ UNCHANGED <<queue, phase, nextEv, popped, tickStart, delivered, updates,
                   deliveredCnt, loaded, hookWrites, requests, timed, input>>

ResolvePush ==
    /\ UNCHANGED <<button, call>>
    /\ pc = "resolve"
    /\ pending.kind = "Push"
    /\ \E t \in Outcomes(nextId), w \in Writes :
         LET r == PushArm(stack, pending.state, t) IN
         /\ stack' = r.stack
         /\ Log(r.trace)
         /\ Stores(storage, w)
         /\ chain' = Append(chain, "Push")
         /\ pending' = t
         /\ nextId' = nextId + Created(t)
         /\ rhooks' = rhooks + Cardinality({i \in 1..Len(r.trace) : r.trace[i].op \in HookNames})
         /\ nOut' = nOut + NonNone(t)
    /\ UNCHANGED <<queue, pc, phase, fatal, nextEv, popped, replaced, tickStart,
                   delivered, updates, deliveredCnt, loaded, hookWrites, requests,
                   timed, input>>

ResolvePop ==
    /\ UNCHANGED <<button, call>>
    /\ pc = "resolve"
    /\ pending.kind = "Pop"
    /\ IF stack = <<>>
       THEN /\ Panic(PanicUnwrap)
            /\ NoHook
            /\ UNCHANGED <<stack, nextId, released, enteredCnt, exitedCnt,
                           popped, trace, chain, rhooks, nOut>>
       ELSE \E t \in Outcomes(nextId), w \in Writes :
              LET r == PopArm(stack, t) IN
              /\ stack' = r.stack
              /\ Log(r.trace)
              /\ Stores(storage, w)
              /\ popped' = popped \cup {Last(stack)}
              /\ chain' = Append(chain, "Pop")
              /\ nextId' = nextId + Created(t)
              /\ rhooks' = rhooks + Cardinality({i \in 1..Len(r.trace) : r.trace[i].op \in HookNames})
              /\ nOut' = nOut + NonNone(t)
              /\ IF PopFatal(t, r.stack)
                 THEN Panic(PanicPopped)
                 ELSE /\ pending' = t
                      /\ UNCHANGED <<pc, fatal>>
    /\ UNCHANGED <<queue, phase, nextEv, replaced, tickStart, delivered, updates,
                   deliveredCnt, loaded, hookWrites, requests, timed, input>>

\* The None arm: nothing is pending any more and handle_transition returns.
ResolveNone ==
    /\ UNCHANGED <<button, call>>
    /\ pc = "resolve"
    /\ pending.kind = "None"
    /\ pc' = "returned"
    /\ trace' = <<>>
    /\ NoHook
    /\ UNCHANGED <<stack, queue, phase, pending, fatal, nextId, nextEv, released,
                   enteredCnt, exitedCnt, popped, replaced, chain, tickStart,
                   delivered, updates, rhooks, nOut, deliveredCnt, loaded,
                   hookWrites, requests, timed, input>>

\* After handle_transition: last_time is set and the next frame is requested.
Schedule ==
    /\ UNCHANGED <<button, call>>
    /\ pc = "returned"
    /\ pc' = "idle"
    /\ trace' = <<>>
    /\ chain' = <<>>
    /\ tickStart' = <<>>
    /\ delivered' = <<>>
    /\ updates' = 0
    /\ rhooks' = 0
    /\ nOut' = 0
    /\ timed' = TRUE
    /\ requests' = request_animation_frame(requests)
    /\ NoHook
    /\ UNCHANGED <<stack, queue, phase, pending, fatal, nextId, nextEv, released,
                   enteredCnt, exitedCnt, popped, replaced, deliveredCnt, loaded,
                   hookWrites, input>>

(* The frame callback.                                                     *)

\* The host invokes the callback: transform reset, then handle_transition
\* takes stack.last_mut().unwrap() and calls the dispatch closure.
TickBegin ==
    /\ UNCHANGED <<button, call>>
    /\ pc = "idle"
    /\ requests > 0
    /\ requests' = requests - 1
    /\ timed' = FALSE
    /\ NoHook
    /\ phase' = "tick"
    /\ trace' = <<>>
    /\ chain' = <<>>
    /\ tickStart' = queue
    /\ delivered' = <<>>
    /\ updates' = 0
    /\ IF stack = <<>>
       THEN Panic(PanicUnwrap)
       ELSE /\ pc' = "dispatch"
            /\ UNCHANGED <<pending, fatal>>
    /\ rhooks' = 0
    /\ nOut' = 0
    /\ UNCHANGED <<stack, queue, nextId, nextEv, released, enteredCnt, exitedCnt,
                   popped, replaced, deliveredCnt, loaded, hookWrites, input>>

\* One iteration of the closure's loop with an event in the queue.
DispatchEvent ==
    /\ UNCHANGED <<button, call>>
    /\ pc = "dispatch"
    /\ queue # <<>>
    /\ \E t \in Outcomes(nextId), w \in Writes :
         LET p == PopNewest(queue) IN
         /\ queue' = p.rest
         /\ Stores(storage, w)
         /\ Log(<<Call("handles_event", Active(stack), t)>>)
         /\ delivered' = Append(delivered, [ev |-> p.ev, ret |-> t.kind])
         /\ deliveredCnt' = [deliveredCnt EXCEPT ![p.ev.seq] = @ + 1]
         /\ nextId' = nextId + Created(t)
         /\ nOut' = nOut + NonNone(t)
         /\ IF ShortCircuits(t)
            THEN /\ pending' = t
                 /\ pc' = "resolve"
            ELSE UNCHANGED <<pending, pc>>
    /\ UNCHANGED <<stack, phase, fatal, nextEv, popped, replaced, chain,
                   tickStart, updates, rhooks, loaded, hookWrites, requests, timed,
                   input>>

\* The iteration that finds the queue empty.
DispatchUpdate ==
    /\ UNCHANGED <<button, call>>
    /\ pc = "dispatch"
    /\ queue = <<>>
    /\ \E t \in Outcomes(nextId), w \in Writes :
         /\ Log(<<Call("updates", Active(stack), t)>>)
         /\ Stores(storage, w)
         /\ pending' = t
         /\ nextId' = nextId + Created(t)
         /\ nOut' = nOut + NonNone(t)
    /\ updates' = updates + 1
    /\ pc' = "resolve"
    /\ UNCHANGED <<stack, queue, phase, fatal, nextEv, popped, replaced, chain,
                   tickStart, delivered, rhooks, deliveredCnt, loaded, hookWrites,
                   requests, timed, input>>

(* The input callbacks (event.rs).  The host runs them between frames.     *)

KeyKinds == {"KeyDown", "KeyUp"}

KeyCallback ==
    /\ UNCHANGED <<button, call>>
    /\ pc \in {"idle", "fatal"}
    /\ nextEv <= MaxEvents
    /\ \E k \in KeyKinds :
         queue' = VecPush(queue, [seq |-> nextEv, kind |-> k])
    /\ nextEv' = nextEv + 1
    /\ trace' = <<>>
    /\ NoHook
    /\ UNCHANGED <<stack, pc, phase, pending, fatal, nextId, released, enteredCnt,
                   exitedCnt, popped, replaced, chain, tickStart, delivered,
                   updates, rhooks, nOut, deliveredCnt, loaded, hookWrites,
                   requests, timed, input>>

\* MouseEvent.button as the host may report it (an i16): the five codes that
\* from_code names, and one on either side of them.
Codes == -1..5

ButtonKinds == {"MouseDown", "MouseUp"}

\* Faulty variant: a code that is not known counts as the left button.
from_codeOrLeft(code) ==
    CASE code = 0 -> <<"Left">>
      [] code = 1 -> <<"Middle">>
      [] code = 2 -> <<"Right">>
      [] code = 3 -> <<"Back">>
      [] code = 4 -> <<"Forward">>
      [] OTHER -> <<"Left">>

\* MouseButton::from_code: <<b>> for Some(b), <<>> for None
from_code(code) ==
    CASE code = 0 -> <<"Left">>
      [] code = 1 -> <<"Middle">>
      [] code = 2 -> <<"Right">>
      [] code = 3 -> <<"Back">>
      [] code = 4 -> <<"Forward">>
      [] OTHER -> <<>>

\* The mousedown and mouseup listeners: the event is pushed unless from_code
\* gives None, where the listener returns.
PointerButtonCallback ==
    /\ UNCHANGED <<button, call>>
    /\ pc \in {"idle", "fatal"}
    /\ nextEv <= MaxEvents
    /\ \E k \in ButtonKinds, c \in Codes :
         /\ input' = [kind |-> k, code |-> c]
         /\ IF from_code(c) = <<>>
            THEN UNCHANGED <<queue, nextEv>>
            ELSE /\ queue' = VecPush(queue, [seq |-> nextEv, kind |-> k,
                                             button |-> from_code(c)[1]])
                 /\ nextEv' = nextEv + 1
    /\ trace' = <<>>
    /\ NoHook
    /\ UNCHANGED <<stack, pc, phase, pending, fatal, nextId, released, enteredCnt,
                   exitedCnt, popped, replaced, chain, tickStart, delivered,
                   updates, rhooks, nOut, deliveredCnt, loaded, hookWrites,
                   requests, timed>>

Next ==
    \/ RunStartup
    \/ ResolveSet
    \/ ResolvePush
    \/ ResolvePop
    \/ ResolveNone
    \/ Schedule
    \/ TickBegin
    \/ DispatchEvent
    \/ DispatchUpdate
    \/ KeyCallback

Spec == Init /\ [][Next]_vars

----------------------------------------------------------------------------
(* Runs without end.  A dropped state object and a consumed event are never  *)
(* used again, and the program depends on no identity but on the order in   *)
(* the stack and in the queue.  Forget renames what is alive to the          *)
(* smallest identities and forgets the rest, which lets a run of the model   *)
(* create objects and capture events for ever, as the program can.           *)

Forget ==
    /\ UNCHANGED <<button, call>>
    /\ pc = "idle"
    /\ \A i \in 1..Len(queue) : queue[i].seq = i
    /\ \/ nextId # Len(stack) + 1
       \/ nextEv # Len(queue) + 1
    /\ stack' = [i \in 1..Len(stack) |-> i]
    /\ nextId' = Len(stack) + 1
    /\ nextEv' = Len(queue) + 1
    /\ enteredCnt' = [o \in Objs |-> IF o <= Len(stack) THEN 1 ELSE 0]
    /\ exitedCnt' = [o \in Objs |-> 0]
    /\ popped' = {}
    /\ replaced' = {}
    /\ released' = {}
    /\ deliveredCnt' = [e \in Evs |-> 0]
    /\ NoHook
    /\ UNCHANGED <<queue, pc, phase, pending, fatal, trace, chain, tickStart,
                   delivered, updates, rhooks, nOut, loaded, hookWrites, requests,
                   timed, input>>

\* The steps of the program's own thread: once begun, run and the frame
\* callback run to their end.
Engine ==
    \/ RunStartup
    \/ ResolveSet
    \/ ResolvePush
    \/ ResolvePop
    \/ ResolveNone
    \/ Schedule
    \/ DispatchEvent
    \/ DispatchUpdate

LiveNext == Next \/ Forget

\* The host invokes every frame callback it was asked for; input may come
\* or not.
LiveSpec ==
    /\ Init
    /\ [][LiveNext]_vars
    /\ WF_vars(Engine)
    /\ WF_vars(TickBegin)

\* Runs without end in which events are captured while the program runs
\* normally and fewer than two are waiting.
DrainNext ==
    \/ RunStartup
    \/ ResolveSet
    \/ ResolvePush
    \/ ResolvePop
    \/ ResolveNone
    \/ Schedule
    \/ TickBegin
    \/ DispatchEvent
    \/ DispatchUpdate
    \/ (pc = "idle" /\ Len(queue) < 2 /\ KeyCallback)
    \/ Forget

DrainSpec ==
    /\ Init
    /\ [][DrainNext]_vars
    /\ WF_vars(Engine)
    /\ WF_vars(TickBegin)

----------------------------------------------------------------------------
(* Sessions of a game that saves.  The page is loaded, run executes, and   *)
(* at any moment the page may be loaded again: everything starts afresh    *)
(* except the entry of localStorage.                                       *)

\* A first session: nothing has been saved yet; the entry is absent or holds
\* a text that is not a G::Storage (left by another version of the page).
StoreInit ==
    /\ Boot
    /\ blob \in {Absent, Garbage}
    /\ lastSet = Never
    /\ hookWrites = Vals

\* The page is loaded again.
Restart ==
    /\ UNCHANGED <<button, call>>
    /\ pc # "start"
    /\ stack' = <<1>>
    /\ queue' = <<>>
    /\ pc' = "start"
    /\ phase' = "startup"
    /\ pending' = NoneT
    /\ fatal' = ""
    /\ nextId' = 2
    /\ nextEv' = 1
    /\ released' = {}
    /\ enteredCnt' = [o \in Objs |-> 0]
    /\ exitedCnt' = [o \in Objs |-> 0]
    /\ popped' = {}
    /\ replaced' = {}
    /\ trace' = <<>>
    /\ chain' = <<>>
    /\ tickStart' = <<>>
    /\ delivered' = <<>>
    /\ updates' = 0
    /\ rhooks' = 0
    /\ nOut' = 0
    /\ deliveredCnt' = [e \in Evs |-> 0]
    /\ storage' = Unloaded
    /\ wrote' = NoWrite
    /\ loaded' = Unloaded
    /\ requests' = 0
    /\ timed' = FALSE
    /\ input' = NoInput
    /\ UNCHANGED <<blob, lastSet, hookWrites>>

\* One input event is captured in a session.
StoreNext ==
    \/ RunStartup
    \/ ResolveSet
    \/ ResolvePush
    \/ ResolvePop
    \/ ResolveNone
    \/ Schedule
    \/ TickBegin
    \/ DispatchEvent
    \/ DispatchUpdate
    \/ (nextEv = 1 /\ KeyCallback)
    \/ Restart

StoreSpec == StoreInit /\ [][StoreNext]_vars

----------------------------------------------------------------------------
(* Runs whose input is the pointer's buttons.                              *)

\* One button event is captured in a run; button events that are not
\* captured arrive at any time.
PointerNext ==
    \/ RunStartup
    \/ ResolveSet
    \/ ResolvePush
    \/ ResolvePop
    \/ ResolveNone
    \/ Schedule
    \/ TickBegin
    \/ DispatchEvent
    \/ DispatchUpdate
    \/ (PointerButtonCallback /\ (nextEv = 1 \/ queue' = queue))

PointerSpec == Init /\ [][PointerNext]_vars

----------------------------------------------------------------------------
(* A Button handed events by the game, which may enable and disable it.    *)

\* Everything but the button.
engine == <<stack, queue, pc, phase, pending, fatal, nextId, nextEv, released,
            enteredCnt, exitedCnt, popped, replaced, trace, chain, tickStart,
            delivered, updates, rhooks, nOut, deliveredCnt, storage, blob,
            lastSet, wrote, loaded, hookWrites, requests, timed, input>>

\* A hook hands an event to the button.  call.recent keeps the touch points of
\* the last TouchStart or TouchMove handed to the enabled button.
ButtonOnEvent ==
    /\ \E ev \in ButtonEvents :
         LET r == on_event(button, ev) IN
         /\ button' = r.button
         /\ call' = [ev |-> ev, ret |-> r.ret, press |-> r.press, played |-> r.played,
                     recent |-> IF button.enabled /\ ev.kind \in {"TouchStart", "TouchMove"}
                                THEN <<ev.touches>> ELSE call.recent]
    /\ UNCHANGED engine

\* The game assigns the public field `enabled`.
ButtonSetEnabled ==
    /\ \E e \in BOOLEAN :
         /\ e # button.enabled
         /\ button' = [button EXCEPT !.enabled = e]
    /\ UNCHANGED call
    /\ UNCHANGED engine

ButtonNext == ButtonOnEvent \/ ButtonSetEnabled

ButtonSpec == Init /\ [][ButtonNext]_vars

----------------------------------------------------------------------------
(* Properties.                                                             *)

Range(s) == {s[i] : i \in 1..Len(s)}
\* The objects that have been on the stack.
Placed == Range(stack) \cup popped \cup replaced
Hooks == {"entered", "handles_event", "updates", "exited"}
\* A step of handle_transition's loop that applies outcome k.
Applies(k) == pc = "resolve" /\ pending.kind = k /\ stack # <<>>

\* C1: whatever the hooks return, at startup and in every tick, a resolution
\* never returns with an empty stack: the stack is empty only while a Push is
\* pending right after the last state was popped, or after the panic
\* "Popped the last state!"; no other panic (an unwrap of an empty stack) occurs.
C1_NonEmptyOrFatal ==
    /\ fatal \in {"", PanicPopped}
    /\ (pc = "fatal") <=> (fatal # "")
    /\ (pc \in {"start", "returned", "idle", "dispatch"}) => stack # <<>>
    /\ (pc = "resolve" /\ pending.kind # "Push") => stack # <<>>

\* A tick's resolution has returned after popping the only state and pushing
\* a replacement from its on_popped.
C1_Witness ==
    /\ pc = "returned"
    /\ phase = "tick"
    /\ chain = <<"Pop", "Push">>
    /\ Len(stack) = 1

\* C2: when Pop removes the last state the resolver goes on iff on_popped
\* returned Push, and otherwise panics without applying the outcome; when
\* states remain, no result of on_popped is fatal in that step.
C2_PopLastContinuesIffPush ==
    [][Applies("Pop") =>
         /\ Len(trace') >= 1
         /\ trace'[1].op = "exited"
         /\ Len(stack) = 1 =>
              /\ stack' = <<>>
              /\ (fatal' = PanicPopped) <=> (trace'[1].ret # "Push")
              /\ trace'[1].ret = "Push" =>
                   pc' = "resolve" /\ pending'.kind = "Push" /\ fatal' = ""
              /\ trace'[1].ret # "Push" => pc' = "fatal" /\ pending' = NoneT
         /\ Len(stack) > 1 =>
              /\ fatal' = ""
              /\ pc' = "resolve"
              /\ pending'.kind = trace'[1].ret]_vars

\* The last state was popped, its on_popped returned Set, and the engine panicked.
C2_Witness ==
    /\ pc = "fatal"
    /\ stack = <<>>
    /\ Len(trace) >= 1
    /\ trace[1].op = "exited"
    /\ trace[1].ret = "Set"

\* C3: one Set link keeps the depth and changes only the top; one Push link
\* adds the new state on top of an unchanged stack; one Pop link removes the
\* top and leaves the rest unchanged, and at depth 1 the empty stack is
\* followed by a pending Push or the panic.
C3_DepthPerLink ==
    [][/\ Applies("Set") =>
            /\ Len(stack') = Len(stack)
            /\ \A i \in 1..(Len(stack) - 1) : stack'[i] = stack[i]
            /\ Last(stack') = pending.state
       /\ (pc = "resolve" /\ pending.kind = "Push") =>
            /\ Len(stack') = Len(stack) + 1
            /\ \A i \in 1..Len(stack) : stack'[i] = stack[i]
            /\ Last(stack') = pending.state
       /\ Applies("Pop") =>
            /\ Len(stack') = Len(stack) - 1
            /\ \A i \in 1..(Len(stack) - 1) : stack'[i] = stack[i]
            /\ Len(stack) = 1 => (pending'.kind = "Push" \/ fatal' = PanicPopped)]_vars

\* A Set has just been applied to a stack of depth two or more.
C3_Witness ==
    /\ pc = "resolve"
    /\ Len(chain) >= 1
    /\ Last(chain) = "Set"
    /\ Len(stack) >= 2

\* The dispatch of the running tick is going on or over, and no panic.
InTick == phase = "tick" /\ pc \in {"dispatch", "resolve", "returned"}
\* Every event delivered so far in the running tick returned None.
AllNone == \A i \in 1..Len(delivered) : delivered[i].ret = "None"

\* C4: in every tick on_update is invoked iff every delivered event returned
\* None, and then all the events queued at the tick's start were delivered and
\* the queue is empty; the first other result ends the delivery, on_update is
\* not invoked, and that result is the pending outcome the resolver starts
\* from; on_update is invoked at most once per tick.
C4_EventsBeforeUpdate ==
    /\ updates \in {0, 1}
    /\ (phase = "tick" /\ pc = "dispatch") => (updates = 0 /\ AllNone)
    /\ (InTick /\ pc # "dispatch") =>
         /\ (updates = 1) <=> AllNone
         /\ updates = 1 => (Len(delivered) = Len(tickStart) /\ queue = <<>>)
         /\ updates = 0 =>
              /\ delivered # <<>>
              /\ \A i \in 1..(Len(delivered) - 1) : delivered[i].ret = "None"
              /\ Len(queue) = Len(tickStart) - Len(delivered)
    /\ (InTick /\ pc = "resolve" /\ chain = <<>>) =>
         /\ Len(trace) = 1
         /\ pending.kind = trace[1].ret
         /\ updates = 1 => trace[1].op = "updates"
         /\ updates = 0 =>
              /\ trace[1].op = "handles_event"
              /\ pending.kind = Last(delivered).ret

\* A tick that began with three events stopped at the second one.
C4_Witness ==
    /\ InTick
    /\ pc = "resolve"
    /\ updates = 0
    /\ Len(tickStart) = 3
    /\ Len(delivered) = 2
    /\ Len(queue) = 1

\* C5: the events of a tick are delivered newest first: the i-th event
\* delivered is the i-th from the newest end of the queue as it was at the
\* tick's start, so the delivery order is the reverse of the push order, and
\* what is left in the queue are the oldest events.
C5_NewestFirst ==
    /\ \A i \in 1..(Len(queue) - 1) : queue[i].seq < queue[i + 1].seq
    /\ phase = "tick" =>
         /\ Len(delivered) <= Len(tickStart)
         /\ \A i \in 1..Len(delivered) :
              delivered[i].ev = tickStart[Len(tickStart) - i + 1]
         /\ \A i \in 1..(Len(delivered) - 1) :
              delivered[i].ev.seq > delivered[i + 1].ev.seq
    /\ InTick => queue = SubSeq(tickStart, 1, Len(tickStart) - Len(delivered))

\* Events pushed in the order 1, 2, 3 have been delivered in the order 3, 2, 1.
C5_Witness ==
    /\ InTick
    /\ Len(delivered) = 3
    /\ delivered[1].ev.seq = 3
    /\ delivered[2].ev.seq = 2
    /\ delivered[3].ev.seq = 1

\* The positions of the hook calls in tr.
HookCalls(tr) == {i \in 1..Len(tr) : tr[i].op \in Hooks}
\* Position of the first entry of tr with operation h on object o, 0 if none.
Pos(tr, h, o) ==
    LET S == {i \in 1..Len(tr) : tr[i].op = h /\ tr[i].obj = o}
    IN IF S = {} THEN 0 ELSE CHOOSE i \in S : \A j \in S : i <= j

\* C6: on_popped is invoked exactly once on every object a Pop removes (and
\* on no other object), and once it has been invoked on an object no hook is
\* invoked on that object again.
C6_ExitedOnce ==
    /\ [](\A o \in Objs : exitedCnt[o] = (IF o \in popped THEN 1 ELSE 0))
    /\ [](popped \cap Range(stack) = {})
    /\ [][\A i \in HookCalls(trace') : exitedCnt[trace'[i].obj] = 0]_vars

\* A state was popped in an earlier resolution, the state it had covered is
\* still on the stack, and on_update has just run.
C6_Witness ==
    /\ InTick
    /\ pc = "resolve"
    /\ chain = <<>>
    /\ updates = 1
    /\ \E o \in popped : exitedCnt[o] = 1 /\ o \in released /\ o > Last(stack)

\* C7: on_pushed, on_event and on_update are only ever invoked on the object
\* that is the top of the stack at the call, so a covered state receives no
\* call; on_popped is invoked only on the object just removed from the top.
C7_ReceiverIsTop ==
    [][\A i \in HookCalls(trace') :
         /\ trace'[i].op # "exited" =>
              (stack' # <<>> /\ trace'[i].obj = Last(stack'))
         /\ trace'[i].op = "exited" =>
              /\ stack # <<>>
              /\ trace'[i].obj = Last(stack)
              /\ stack' = Front(stack)
              /\ trace'[i].obj \notin Range(stack')]_vars

\* An event has just been delivered while another state lies under the top.
C7_Witness ==
    /\ Len(stack) >= 2
    /\ Len(trace) = 1
    /\ trace[1].op = "handles_event"
    /\ trace[1].obj = Last(stack)

\* C8: every object put on the stack (the initial one, a Set or Push payload)
\* has on_pushed invoked exactly once, in the step that puts it there and as
\* that step's only hook call, and the result is the resolver's next pending
\* outcome; a Pop invokes no on_pushed, so a state uncovered by a Pop is not
\* entered again; no on_event or on_update runs before the startup resolution
\* has returned.
C8_EnteredOnce ==
    /\ [](\A o \in Objs :
            enteredCnt[o] = (IF o \in Placed /\ pc # "start" THEN 1 ELSE 0))
    /\ [](phase = "startup" => (delivered = <<>> /\ updates = 0))
    /\ [][/\ ((pc = "resolve" /\ pending.kind \in {"Set", "Push"}) \/ pc = "start") =>
               LET new == IF pc = "start" THEN stack[1] ELSE pending.state IN
               /\ stack' # <<>>
               /\ Last(stack') = new
               /\ HookCalls(trace') # {}
               /\ \A i \in HookCalls(trace') :
                    /\ trace'[i].op = "entered"
                    /\ trace'[i].obj = new
                    /\ trace'[i].ret = pending'.kind
               /\ pc' = "resolve"
          /\ ~((pc = "resolve" /\ pending.kind \in {"Set", "Push"}) \/ pc = "start") =>
               \A i \in HookCalls(trace') : trace'[i].op # "entered"]_vars

\* A state that was entered once is the top again after the state above it
\* was popped, and on_update has just run on it.
C8_Witness ==
    /\ InTick
    /\ pc = "resolve"
    /\ chain = <<>>
    /\ updates = 1
    /\ \E o \in popped : o > Last(stack)
    /\ enteredCnt[Last(stack)] = 1

\* C9: on_popped is never invoked on an object that a Set replaced, and no
\* hook at all is invoked on it from the replacement on; the object is off
\* the stack and dropped.
C9_SetDoesNotExit ==
    /\ [](\A o \in replaced :
            exitedCnt[o] = 0 /\ o \notin Range(stack) /\ o \in released)
    /\ [][\A i \in HookCalls(trace') : trace'[i].obj \notin replaced']_vars

\* A state was replaced by Set in an earlier resolution and on_update has run
\* since.
C9_Witness ==
    /\ InTick
    /\ pc = "resolve"
    /\ chain = <<>>
    /\ updates = 1
    /\ replaced # {}

\* C10 as stated: in a Set step the old object is dropped after on_pushed has
\* been invoked on the new one.
C10_ReleasedAfterEntered ==
    [][Applies("Set") =>
         /\ Pos(trace', "entered", pending.state) > 0
         /\ Pos(trace', "release", Last(stack)) > Pos(trace', "entered", pending.state)]_vars

\* C10, amended: in a Set step the old object is dropped by the assignment
\* that stores the new one, before on_pushed is invoked on the new object.
C10_ReleasedBeforeEntered ==
    [][Applies("Set") =>
         /\ Pos(trace', "release", Last(stack)) > 0
         /\ Pos(trace', "entered", pending.state) > Pos(trace', "release", Last(stack))
         /\ Last(stack) \in released'
         /\ Last(stack) \notin released]_vars

\* A Set has just been applied: the old top is dropped and the new one entered.
C10_Witness ==
    /\ pc = "resolve"
    /\ Len(chain) >= 1
    /\ Last(chain) = "Set"
    /\ Len(trace) = 2
    /\ trace[1].op = "release"
    /\ trace[1].obj \in replaced
    /\ trace[2].op = "entered"
    /\ trace[2].obj = Last(stack)

\* The longest chain the objects of one run allow: every Set or Push takes a
\* newly created object, every Pop an element of the stack.
MaxChain == 2 * (MaxObjs - 1) + 1

\* C11: a pending None ends the resolution at once, with no hook call; every
\* other pending outcome costs exactly one iteration of the loop and exactly
\* one hook call, so a resolution that returns has made as many iterations
\* and hook calls as it was handed outcomes other than None; the loop can
\* always take its next step and the chain is finite, so it ends by returning
\* or by the panic.
C11_OneStepPerOutcome ==
    /\ [](pc = "resolve" =>
            /\ rhooks = Len(chain)
            /\ nOut = Len(chain) + NonNone(pending)
            /\ Len(chain) + NonNone(pending) <= MaxChain
            /\ ENABLED (ResolveSet \/ ResolvePush \/ ResolvePop \/ ResolveNone))
    /\ [](pc = "returned" =>
            (pending = NoneT /\ rhooks = Len(chain) /\ nOut = Len(chain)))
    /\ [](pc = "fatal" =>
            (rhooks = Len(chain) /\ nOut \in {Len(chain), Len(chain) + 1}))
    /\ [][pc = "resolve" =>
            IF pending.kind = "None"
            THEN /\ pc' = "returned"
                 /\ HookCalls(trace') = {}
                 /\ stack' = stack
                 /\ chain' = chain
            ELSE /\ chain' = Append(chain, pending.kind)
                 /\ Cardinality(HookCalls(trace')) = 1
                 /\ \/ pc' = "resolve" /\ \A i \in HookCalls(trace') : pending'.kind = trace'[i].ret
                    \/ pc' = "fatal" /\ fatal' = PanicPopped]_vars

\* Two nested pushes, then three pops, the last of which empties the stack and
\* pushes from on_popped: six outcomes, six iterations, six hook calls.
C11_Witness ==
    /\ pc = "returned"
    /\ chain = <<"Push", "Push", "Pop", "Pop", "Pop", "Push">>
    /\ rhooks = 6
    /\ nOut = 6
    /\ Len(stack) = 1

\* How many times event number e is in the queue.
InQueue(e) == Cardinality({i \in 1..Len(queue) : queue[i].seq = e})

\* C12: every captured event is either still in the queue (once) or was
\* handed to on_event exactly once, never both; the queue loses an event only
\* in a dispatch step, which hands that very event to on_event of the active
\* state, whatever on_event returns; every other change of the queue is an
\* append.
C12_ConsumedOnce ==
    /\ [](\A e \in Evs :
            IF e < nextEv
            THEN deliveredCnt[e] + InQueue(e) = 1
            ELSE deliveredCnt[e] = 0 /\ InQueue(e) = 0)
    /\ [][queue' # queue =>
            \/ /\ Len(queue') = Len(queue) + 1
               /\ Front(queue') = queue
               /\ HookCalls(trace') = {}
               /\ deliveredCnt' = deliveredCnt
            \/ /\ pc = "dispatch"
               /\ queue # <<>>
               /\ queue' = Front(queue)
               /\ Len(trace') = 1
               /\ trace'[1].op = "handles_event"
               /\ trace'[1].obj = Last(stack)
               /\ delivered' = Append(delivered, [ev |-> Last(queue), ret |-> trace'[1].ret])
               /\ deliveredCnt' = [deliveredCnt EXCEPT ![Last(queue).seq] = 1]]_vars

\* A tick stopped at an event that returned another outcome than None: that
\* event is gone from the queue, an older one is still there.
C12_Witness ==
    /\ pc = "returned"
    /\ phase = "tick"
    /\ updates = 0
    /\ queue # <<>>
    /\ delivered # <<>>
    /\ Last(delivered).ret # "None"
    /\ deliveredCnt[Last(delivered).ev.seq] = 1
    /\ InQueue(Last(delivered).ev.seq) = 0
    /\ deliveredCnt[queue[1].seq] = 0

\* C13 as stated: with frames scheduled fairly and short of the panic, every
\* event that is in the queue is eventually handed to on_event, whatever the
\* input callbacks and the hooks do.
C13_EveryEventDelivered ==
    \A e \in Evs : (InQueue(e) = 1) ~> (deliveredCnt[e] >= 1 \/ fatal # "")

\* What a start of the session would load now.
Restarted == get_data(blob)

\* The value the last set_storage call ever made has left, the default if
\* there was none.
Saved == IF lastSet = Never THEN Default ELSE lastSet

\* C14: at every moment a restart would load the argument of the last
\* set_storage call, the default if set_storage was never called; and every
\* startup does load that value into the storage the first hook sees.
C14_RoundTrip ==
    /\ [](Restarted = Saved)
    /\ [](pc # "start" => (loaded \in Vals /\ (lastSet # Never => storage = lastSet)))
    /\ [][pc = "start" /\ pc' # "start" =>
            /\ loaded' = Saved
            /\ storage' = (IF wrote' = NoWrite THEN Saved ELSE wrote')]_vars
    /\ [][wrote' # NoWrite => (lastSet' = wrote' /\ get_data(blob') = wrote')]_vars

\* A session that loaded "a", saved by an earlier one, and has since saved
\* the default value over it.
C14_Witness ==
    /\ pc = "idle"
    /\ loaded = "a"
    /\ lastSet = Default
    /\ storage = Default
    /\ blob = to_string(Default)

\* The entry is absent, or holds a text that is not a G::Storage.
Unusable(b) == b = Absent \/ from_str(b) = Absent

\* C15: a startup that finds the entry absent or unparsable loads the default
\* value, raises nothing, and goes on to on_pushed of the initial state and
\* the resolution of its result.
C15_DefaultOnUnusableBlob ==
    [][pc = "start" /\ pc' # "start" /\ Unusable(blob) =>
          /\ loaded' = Default
          /\ storage' = (IF wrote' = NoWrite THEN Default ELSE wrote')
          /\ fatal' = ""
          /\ pc' = "resolve"
          /\ phase' = "startup"
          /\ stack' = stack
          /\ Len(trace') = 1
          /\ trace'[1].op = "entered"
          /\ trace'[1].obj = Last(stack)
          /\ pending'.kind = trace'[1].ret]_vars

\* The startup has run against an unparsable entry, which is still there.
C15_Witness ==
    /\ pc = "resolve"
    /\ phase = "startup"
    /\ chain = <<>>
    /\ blob = Garbage
    /\ loaded = Default
    /\ storage = Default
    /\ fatal = ""
    /\ Count(trace, "entered", 1) = 1

\* C16: the entry changes only in a step whose hook calls set_storage, and so
\* does the value in memory once it is loaded; a call set_storage(v) leaves v
\* in both, and v stays what storage() returns until the next call.
C16_WrittenOnlyBySetStorage ==
    /\ [][/\ wrote' = NoWrite => blob' = blob
          /\ (wrote' = NoWrite /\ pc # "start" /\ pc' # "start") => storage' = storage
          /\ HookCalls(trace') = {} => wrote' = NoWrite
          /\ wrote' # NoWrite =>
                /\ storage' = wrote'
                /\ blob' = to_string(wrote')
                /\ from_str(blob') = <<wrote'>>]_vars
    /\ [](pc # "start" /\ lastSet # Never => storage = lastSet)
    /\ [](pc # "start" /\ lastSet = Never => (storage = Default /\ Unusable(blob)))

\* In a tick, on_pushed of a pushed state has saved "a" over nothing.
C16_Witness ==
    /\ pc = "resolve"
    /\ phase = "tick"
    /\ chain = <<"Push">>
    /\ wrote = "a"
    /\ storage = "a"
    /\ blob = to_string("a")
    /\ loaded = Default

\* The buttons in the order of their codes 0..4.
Buttons == <<"Left", "Middle", "Right", "Back", "Forward">>

\* C17: a mousedown or mouseup whose button code is none of 0..4 leaves the
\* queue as it is, a code in 0..4 appends exactly one MouseDown / MouseUp event
\* with the button of that code; in both cases no hook is invoked and nothing
\* is delivered.
C17_UnknownButtonDropped ==
    [][(input' # input \/ Len(queue') > Len(queue)) =>
          /\ input'.kind \in ButtonKinds
          /\ HookCalls(trace') = {}
          /\ enteredCnt' = enteredCnt
          /\ exitedCnt' = exitedCnt
          /\ deliveredCnt' = deliveredCnt
          /\ updates' = updates
          /\ stack' = stack
          /\ IF input'.code >= 0 /\ input'.code <= 4
             THEN queue' = Append(queue, [seq |-> nextEv, kind |-> input'.kind,
                                         button |-> Buttons[input'.code + 1]])
             ELSE queue' = queue]_vars

\* A mouseup of the button with code 4 was captured, then a mousedown with
\* code 5 arrived and left it alone in the queue.
C17_Witness ==
    /\ pc = "idle"
    /\ queue = <<[seq |-> 1, kind |-> "MouseUp", button |-> "Forward"]>>
    /\ input = [kind |-> "MouseDown", code |-> 5]
    /\ trace = <<>>

\* C18: a frame is requested only when the running handle_transition has
\* returned (its chain has reached None) and last_time is recorded; so at most
\* one request is outstanding, none while a frame runs, and a frame begins
\* only from the idle thread, consuming the one request.
C18_TicksSequential ==
    /\ [](requests \in {0, 1})
    /\ [](requests = 1 <=> pc = "idle")
    /\ [](InTick => (requests = 0 /\ ~timed))
    /\ [](pc = "idle" => (timed /\ pending = NoneT /\ chain = <<>>))
    /\ [][requests' > requests =>
            /\ pc = "returned"
            /\ pending = NoneT
            /\ requests = 0
            /\ timed'
            /\ stack' = stack
            /\ queue' = queue]_vars
    /\ [][(pc # "dispatch" /\ pc' = "dispatch") =>
            /\ pc = "idle"
            /\ requests = 1
            /\ requests' = 0
            /\ timed
            /\ ~timed'
            /\ delivered' = <<>>
            /\ updates' = 0]_vars

\* A frame has begun after the one that delivered event 1 has completed.
C18_Witness ==
    /\ pc = "dispatch"
    /\ phase = "tick"
    /\ requests = 0
    /\ ~timed
    /\ delivered = <<>>
    /\ updates = 0
    /\ deliveredCnt[1] = 1
    /\ queue = <<>>
    /\ nextEv = 2

\* The events handed to on_event so far in the running frame, in that order.
DeliveredEvents == [i \in 1..Len(delivered) |-> delivered[i].ev]
Reverse(q) == [i \in 1..Len(q) |-> q[Len(q) + 1 - i]]

\* C19: a step that captures an event puts it at the newest end of the queue
\* and leaves what was queued, the stack and the storage as they were; it is
\* taken only while no frame and no startup runs, so within a frame the queue
\* and the events delivered so far make up the queue of the frame's start.
C19_CallbacksOnlyAppend ==
    /\ [][nextEv' # nextEv =>
            /\ nextEv' = nextEv + 1
            /\ Len(queue') = Len(queue) + 1
            /\ Front(queue') = queue
            /\ Last(queue').seq = nextEv
            /\ stack' = stack
            /\ storage' = storage
            /\ blob' = blob
            /\ HookCalls(trace') = {}
            /\ pc \in {"idle", "fatal"}
            /\ pc' = pc
            /\ delivered' = delivered
            /\ tickStart' = tickStart]_vars
    /\ [](InTick => queue \o Reverse(DeliveredEvents) = tickStart)
    /\ [][(pc = "start" \/ pc = "dispatch" \/ pc = "resolve" \/ pc = "returned") =>
            (queue' = queue \/ (pc = "dispatch" /\ queue' = Front(queue)))]_vars

\* Two events were captured before the frame, a third after its end: the
\* frame delivered the second and stopped, the first is still queued before
\* the third.
C19_Witness ==
    /\ pc = "idle"
    /\ Len(queue) = 2
    /\ queue[1].seq = 1
    /\ queue[2].seq = 3
    /\ deliveredCnt[2] = 1
    /\ Len(stack) = 2

\* C20: the events left in the queue when on_event returns a transition stay
\* there, oldest first, through the resolution and up to a later frame, new
\* events being put after them; an event leaves the queue only by being
\* handed, before every older one and in a frame where no earlier result was
\* a transition, to the state that is then on top.  (Whether that frame ever
\* comes is C13's matter.)
C20_LeftoversKeptInOrder ==
    /\ [](\A i \in 1..(Len(queue) - 1) : queue[i].seq < queue[i + 1].seq)
    /\ [][(pc = "dispatch" /\ pc' = "resolve" /\ delivered' # delivered) =>
            /\ queue' = Front(queue)
            /\ queue' = SubSeq(tickStart, 1, Len(queue'))]_vars
    /\ [][pc # "dispatch" => (queue' = queue \/ Front(queue') = queue)]_vars
    /\ [][queue' # queue /\ Len(queue') <= Len(queue) =>
            /\ pc = "dispatch"
            /\ AllNone
            /\ queue' = Front(queue)
            /\ delivered' = Append(delivered, [ev |-> Last(queue), ret |-> pending'.kind])
            /\ \A i \in 1..Len(queue') : queue'[i].seq < Last(queue).seq
            /\ Len(trace') = 1
            /\ trace'[1].op = "handles_event"
            /\ trace'[1].obj = Last(stack)]_vars

\* Events 1 and 2 were queued when a frame delivered 2 to state 1, which
\* answered Set; event 3 came after that frame; the next frame has delivered
\* 3 and then 1, both to state 2, which did not exist when 1 was captured.
C20_Witness ==
    /\ pc = "dispatch"
    /\ Len(tickStart) = 2
    /\ tickStart[1].seq = 1
    /\ tickStart[2].seq = 3
    /\ Len(delivered) = 2
    /\ delivered[1].ev.seq = 3
    /\ delivered[2].ev.seq = 1
    /\ deliveredCnt[2] = 1
    /\ stack = <<2>>
    /\ replaced = {1}
    /\ popped = {}
    /\ nextId = 3
    /\ trace = <<Call("handles_event", 2, NoneT)>>

\* on_update has just been invoked by a frame that found the queue empty.
Drained == queue = <<>> /\ updates > 0

\* C21: with every requested frame run and no panic, either events are
\* captured again and again, or frames that find the queue empty and invoke
\* on_update keep coming, whatever on_event returns.
C21_QueueDrains ==
    \/ []<><<KeyCallback>>_vars
    \/ <>(fatal # "")
    \/ []<>Drained

\* Two events were captured, each was delivered, and a later frame found the
\* queue empty and invoked on_update.
C21_Witness ==
    /\ Drained
    /\ phase = "tick"
    /\ nextEv = 3
    /\ deliveredCnt[1] = 1
    /\ deliveredCnt[2] = 1
    /\ delivered = <<>>

\* C22: the panic "Popped the last state!" leaves the stack empty and the
\* result of on_popped unapplied, with last_time not recorded and no frame
\* requested; from then on no hook is invoked, no event is delivered and no
\* frame is requested, and the only change is an input callback putting an
\* event at the newest end of the queue.
C22_NothingAfterPanic ==
    /\ [](fatal = PanicPopped =>
            /\ pc = "fatal"
            /\ stack = <<>>
            /\ pending = NoneT
            /\ requests = 0
            /\ ~timed)
    /\ [][(fatal = "" /\ fatal' = PanicPopped) =>
            /\ pc = "resolve"
            /\ pending.kind = "Pop"
            /\ Len(stack) = 1
            /\ Len(trace') = 2
            /\ trace'[1].op = "exited"
            /\ trace'[1].ret # "Push"
            /\ trace'[1].obj = stack[1]
            /\ trace'[2] = Drop(stack[1])]_vars
    /\ [][fatal = PanicPopped =>
            /\ fatal' = fatal
            /\ pc' = pc
            /\ stack' = stack
            /\ pending' = pending
            /\ HookCalls(trace') = {}
            /\ enteredCnt' = enteredCnt
            /\ exitedCnt' = exitedCnt
            /\ deliveredCnt' = deliveredCnt
            /\ delivered' = delivered
            /\ updates' = updates
            /\ nextId' = nextId
            /\ requests' = requests
            /\ timed' = timed
            /\ storage' = storage
            /\ (queue' = queue \/ Front(queue') = queue)]_vars

\* A frame that found the queue empty invoked on_update, whose Pop removed
\* the last state and ended in the panic; an event captured after that is
\* in the queue, undelivered.
C22_Witness ==
    /\ fatal = PanicPopped
    /\ phase = "tick"
    /\ tickStart = <<>>
    /\ updates = 1
    /\ chain = <<"Pop">>
    /\ Len(queue) = 1
    /\ deliveredCnt[queue[1].seq] = 0

\* C23: once the startup load has run, what storage() returns is what a
\* start of the session would load from the entry as it is now.
C23_MemoryMatchesBlob == pc # "start" => storage = get_data(blob)

\* In a session that loaded the default value, on_update has saved "a".
C23_Witness ==
    /\ pc = "resolve"
    /\ phase = "tick"
    /\ updates = 1
    /\ chain = <<>>
    /\ loaded = Default
    /\ lastSet = "a"
    /\ wrote = "a"
    /\ storage = "a"
    /\ get_data(blob) = "a"

\* The first touch point of the last TouchStart or TouchMove the button was
\* handed while enabled, <<>> if there was no such event or it had no point.
Remembered(c) == IF c.recent = <<>> \/ Len(c.recent[1]) = 0 THEN <<>> ELSE <<c.recent[1][1]>>

\* C24: a call of on_event (a step that leaves `enabled` as it is) on a
\* disabled button returns false and leaves the button as it was; on an
\* enabled button a TouchEnd with more than one touch point does the same; a
\* TouchEnd with at most one is a press at its touch point if it has one,
\* else at the remembered position, and false if there is neither; the press
\* returns whether the position is over the text, and TouchEnd leaves the
\* remembered position in place.
C24_TouchEndPress ==
    /\ [](button.last_touch = Remembered(call))
    /\ [][button'.enabled = button.enabled =>
            /\ ~button.enabled =>
                 /\ call'.ret = FALSE
                 /\ call'.press = <<>>
                 /\ button' = button
            /\ (button.enabled /\ call'.ev.kind = "TouchEnd" /\ Len(call'.ev.touches) > 1) =>
                 /\ call'.ret = FALSE
                 /\ call'.press = <<>>
                 /\ button' = button
            /\ (button.enabled /\ call'.ev.kind = "TouchEnd" /\ Len(call'.ev.touches) <= 1) =>
                 LET at == IF Len(call'.ev.touches) = 1
                           THEN <<call'.ev.touches[1]>>
                           ELSE Remembered(call)
                 IN /\ call'.press = at
                    /\ call'.ret = (at # <<>> /\ at[1] \in Inside)
                    /\ button'.last_touch = button.last_touch
                    /\ Remembered(call') = Remembered(call)]_vars

\* The button was handed a TouchMove at p and r, was disabled and enabled
\* again, and a TouchEnd without touch points was a press at p.
C24_Witness ==
    /\ button.enabled
    /\ call.ev = TouchE("TouchEnd", <<>>)
    /\ call.recent = << <<"p", "r">> >>
    /\ call.press = <<"p">>
    /\ call.ret
    /\ call.played = "click"
    /\ button.last_touch = <<"p">>
    /\ ~button.hovered

====
